---- MODULE Spec2Model ----
(***************************************************************************)
(* A model of the a-crawler identity and persistence pipeline:             *)
(*   sitemap intake (parseSitemap / parseMultipleSitemaps),                *)
(*   URL normalization (normalizeUrl),                                     *)
(*   the crawl orchestrator (runCrawl: enqueue loop, requestHandler,       *)
(*   failedRequestHandler),                                                *)
(*   content hashing (hashHtmlContent) and                                 *)
(*   the MySQL upserts (upsertPage, upsertUrlAlias, pageExists).           *)
(*                                                                         *)
(* Strings are modelled structurally.  A URL string is a record of its     *)
(* parts; an HTML string is a sequence of element tokens.  SQL NULL and    *)
(* JavaScript undefined are the empty tuple None, a present value v is the *)
(* one-element tuple Some(v).                                              *)
(***************************************************************************)
EXTENDS Integers, Sequences, FiniteSets, TLC

(***************************************************************************)
(* Optional values                                                         *)
(***************************************************************************)
None == <<>>

Some(v) == <<v>>

IsSome(x) == x # None

Val(x) == x[1]

\* SQL COALESCE(a, b)
COALESCE(a, b) == IF IsSome(a) THEN a ELSE b

\* a string parameter passed without  || null
StrOrNullKeepsEmpty(x) == x

\* JavaScript  x || null  for a string-valued x ('' is falsy); strings are
\* sequences of tokens here
StrOrNull(x) == IF IsSome(x) /\ Val(x) # <<>> THEN x ELSE None

\* JavaScript  x || null  for a number-valued x (0 is falsy)
NumOrNull(x) == IF IsSome(x) /\ Val(x) # 0 THEN x ELSE None

\* JavaScript  x || 0  for a number-valued x
NumOrZero(x) == IF IsSome(x) /\ Val(x) # 0 THEN x ELSE Some(0)

\* JavaScript  x || undefined  for a string-valued x
StrOrUndefined(x) == IF IsSome(x) /\ Val(x) # <<>> THEN x ELSE None

(***************************************************************************)
(* URLs.  A URL string is the record of its parts:                         *)
(*   scheme  "https", "http" or "" (no scheme written)                     *)
(*   host    the host as written ("" = no host: the URL parser rejects it) *)
(*   base    the path without its trailing slashes ("" for the root)       *)
(*   trail   the number of trailing slashes of the path                    *)
(*   query   the sequence of query pairs as written, each named by its key *)
(*           ("a2" is a second pair of key a, with another value)          *)
(*   frag    TRUE iff a #fragment is written                               *)
(***************************************************************************)
TRACKING_PARAMS ==
  {"utm_source", "utm_medium", "utm_campaign", "utm_term", "utm_content",
   "utm_id", "fbclid", "gclid", "msclkid", "ref", "mc_cid", "mc_eid",
   "_ga", "_gl", "gad_source", "campaignid", "adgroupid"}

Url(s, h, b, t, q, f) ==
  [scheme |-> s, host |-> h, base |-> b, trail |-> t, query |-> q, frag |-> f]

\* String.prototype.toLowerCase on the host names of the model
ToLowerCase(h) == IF h = "EX.com" THEN "ex.com" ELSE h

\* Array.prototype.filter: the query keys that are not tracking parameters
RECURSIVE DeleteTracking(_)
DeleteTracking(q) ==
  IF q = <<>> THEN <<>>
  ELSE IF Head(q) \in TRACKING_PARAMS THEN DeleteTracking(Tail(q))
       ELSE <<Head(q)>> \o DeleteTracking(Tail(q))

\* localeCompare order of the query keys of the model
KeyRank(k) == CASE k \in {"a", "a2"} -> 1 [] k = "b" -> 2 [] OTHER -> 3

\* stable insertion of key k into the sorted sequence s
RECURSIVE InsertSorted(_, _)
InsertSorted(k, s) ==
  IF s = <<>> THEN <<k>>
  ELSE IF KeyRank(k) < KeyRank(Head(s)) THEN <<k>> \o s
       ELSE <<Head(s)>> \o InsertSorted(k, Tail(s))

\* Array.prototype.sort by key (stable)
RECURSIVE SortParams(_)
SortParams(q) ==
  IF q = <<>> THEN <<>>
  ELSE InsertSorted(q[Len(q)], SortParams(SubSeq(q, 1, Len(q) - 1)))

\* new URL(s): the parser gives every http(s) URL a path of at least "/"
ParsedTrail(u) == IF u.base = "" /\ u.trail = 0 THEN 1 ELSE u.trail

\* normalizeUrl throws: empty input, or the URL parser rejects the string
NormalizeThrows(u) == u.host = ""

\* removes ONE trailing slash when the path is not exactly "/"
StripTrailingSlash(b, t) ==
  IF ~(b = "" /\ t = 1) /\ t >= 1 THEN t - 1 ELSE t

normalizeUrl(u) ==
  Url(IF u.scheme = "" THEN "https" ELSE u.scheme,
      ToLowerCase(u.host),
      u.base,
      StripTrailingSlash(u.base, ParsedTrail(u)),
      SortParams(DeleteTracking(u.query)),
      FALSE)

(***************************************************************************)
(* HTML.  An HTML string is a sequence of tokens:                          *)
(*   "T"  a <title> element (in <head>)                                    *)
(*   "F"  the element <title>Page Not Found</title> (in <head>)            *)
(*   "M"  a <meta name=description> element (in <head>)                    *)
(*   "h"  an <h1> element with text                                        *)
(*   "P"  a long paragraph (WordsLong words, no links)                     *)
(*   "L"  a short paragraph that is all link text (WordsShort words)       *)
(*   "N"  a <nav> element (removed by the cleaner)                         *)
(*   " "  a run character of whitespace                                    *)
(***************************************************************************)
WordsLong == 120

WordsShort == 40

READABILITY_MIN_WORDS == 100

\* the titles of the model that match one of SOFT_404_TITLE_PATTERNS
SOFT_404_TITLE_PATTERNS == {<<"F">>}

RECURSIVE SelectTokens(_, _)
SelectTokens(html, keep) ==
  IF html = <<>> THEN <<>>
  ELSE IF Head(html) \in keep THEN <<Head(html)>> \o SelectTokens(Tail(html), keep)
       ELSE SelectTokens(Tail(html), keep)

\* cleanHtml: document.body.innerHTML after removing REMOVE_SELECTORS
\* (head elements are not part of the body)
cleanHtml(html) ==
  IF html = <<>> THEN <<>> ELSE SelectTokens(html, {"h", "P", "L", " "})

RECURSIVE countWords(_)
countWords(html) ==
  IF html = <<>> THEN 0
  ELSE (CASE Head(html) = "P" -> WordsLong
          [] Head(html) = "L" -> WordsShort
          [] Head(html) = "h" -> 1
          [] OTHER -> 0) + countWords(Tail(html))

\* calculateJunkScore, in percent: link text length over total text length
calculateJunkScore(html) ==
  IF html = <<>> THEN 100
  ELSE LET total == countWords(SelectTokens(html, {"h", "P", "L"}))
           links == countWords(SelectTokens(html, {"L"}))
       IN  IF total = 0 THEN 100 ELSE (100 * links) \div total

\* extractContent: the cascade ends in the cleaned body; a strategy before
\* the fallback is accepted only with READABILITY_MIN_WORDS words
extractContent(html) ==
  IF html = <<>>
    THEN [cleanHtml |-> <<>>, extractionMethod |-> "fallback",
          wordCount |-> 0, success |-> FALSE]
    ELSE LET cleaned == cleanHtml(html)
         IN  [cleanHtml |-> cleaned,
              extractionMethod |->
                IF countWords(cleaned) >= READABILITY_MIN_WORDS
                  THEN "readability" ELSE "fallback",
              wordCount |-> countWords(cleaned),
              success |-> TRUE]

\* extractMetadata: title <- <title> || first <h1>;  h1 <- first <h1>;
\* meta_description <- <meta name=description>
extractMetadata(html) ==
  [title |-> IF "F" \in {html[i] : i \in 1..Len(html)} THEN <<"F">>
             ELSE IF "T" \in {html[i] : i \in 1..Len(html)} THEN <<"T">>
             ELSE IF "h" \in {html[i] : i \in 1..Len(html)} THEN <<"h">>
             ELSE <<>>,
   h1 |-> IF "h" \in {html[i] : i \in 1..Len(html)} THEN <<"h">> ELSE <<>>,
   metaDescription |->
     IF "M" \in {html[i] : i \in 1..Len(html)} THEN <<"M">> ELSE <<>>]

\* htmlToMarkdown(cleanHtml, url, h1, true): the text blocks, h1 hoisted
htmlToMarkdown(clean, h1) ==
  LET blocks == SelectTokens(clean, {"P", "L"})
  IN  IF h1 # <<>> THEN <<"#">> \o h1 \o blocks ELSE blocks

(***************************************************************************)
(* Hashing                                                                 *)
(***************************************************************************)
\* html.replace(/\s+/g, ' '): collapse every run of whitespace to one blank
RECURSIVE CollapseWhitespace(_)
CollapseWhitespace(s) ==
  IF Len(s) <= 1 THEN s
  ELSE IF s[1] = " " /\ s[2] = " " THEN CollapseWhitespace(Tail(s))
       ELSE <<s[1]>> \o CollapseWhitespace(Tail(s))

\* String.prototype.trim
RECURSIVE TrimLeft(_)
TrimLeft(s) == IF s # <<>> /\ Head(s) = " " THEN TrimLeft(Tail(s)) ELSE s

RECURSIVE TrimRight(_)
TrimRight(s) ==
  IF s # <<>> /\ s[Len(s)] = " " THEN TrimRight(SubSeq(s, 1, Len(s) - 1)) ELSE s

Trim(s) == TrimRight(TrimLeft(s))

\* MD5 is modelled as an injective tagging of its input (no collisions);
\* the digest is never the empty string
md5Hash(content) == <<"md5">> \o content

hashHtmlContent(html) ==
  IF html = <<>> THEN <<>> ELSE md5Hash(Trim(CollapseWhitespace(html)))

(***************************************************************************)
(* crawler_pages: one row per final_url.  The table is a function from the *)
(* final_url key to the row; a row is a record of option values.           *)
(***************************************************************************)
\* falsy test of  x || null  for the text columns held as TLA+ strings
TextOrNull(x) == IF IsSome(x) /\ Val(x) # "" THEN x ELSE None

\* the parameter array of upsertPage: every value passes through  || null
\* (word_count through  || 0), redirect_chain through  x ? stringify(x) : null
PageParams(page) ==
  [final_url |-> page.final_url,
   requested_url_original |-> page.requested_url_original,
   status_code |-> NumOrNull(page.status_code),
   crawl_status |-> page.crawl_status,
   redirect_chain |-> page.redirect_chain,
   html_content |-> StrOrNull(page.html_content),
   clean_html |-> StrOrNull(page.clean_html),
   markdown |-> StrOrNull(page.markdown),
   title |-> StrOrNull(page.title),
   h1 |-> StrOrNull(page.h1),
   meta_description |-> StrOrNull(page.meta_description),
   word_count |-> NumOrZero(page.word_count),
   content_hash |-> StrOrNull(page.content_hash),
   sitemap_type_hint |-> TextOrNull(page.sitemap_type_hint),
   fetch_mode |-> TextOrNull(page.fetch_mode),
   extraction_method |-> TextOrNull(page.extraction_method),
   junk_score |-> NumOrNull(page.junk_score),
   last_error |-> TextOrNull(page.last_error),
   run_id |-> NumOrNull(page.run_id)]

\* INSERT: the listed columns take the parameters; nav_structure and
\* structural_stats are not in the column list and stay NULL
InsertRow(v, ts) ==
  [final_url |-> v.final_url,
   requested_url_original |-> v.requested_url_original,
   status_code |-> v.status_code,
   crawl_status |-> v.crawl_status,
   redirect_chain |-> v.redirect_chain,
   html_content |-> v.html_content,
   clean_html |-> v.clean_html,
   markdown |-> v.markdown,
   title |-> v.title,
   h1 |-> v.h1,
   meta_description |-> v.meta_description,
   word_count |-> v.word_count,
   content_hash |-> v.content_hash,
   sitemap_type_hint |-> v.sitemap_type_hint,
   fetch_mode |-> v.fetch_mode,
   extraction_method |-> v.extraction_method,
   junk_score |-> v.junk_score,
   last_error |-> v.last_error,
   run_id |-> v.run_id,
   last_crawled_at |-> ts,
   nav_structure |-> None,
   structural_stats |-> None]

\* the gate without its IS NOT NULL test
HashGateNoNullTest(newHash, storedHash) ==
  newHash # COALESCE(storedHash, Some(<<>>))

\* the gate of html_content and clean_html:
\*   VALUES(content_hash) IS NOT NULL AND
\*   VALUES(content_hash) != COALESCE(content_hash, '')
HashGate(newHash, storedHash) ==
  IsSome(newHash) /\ newHash # COALESCE(storedHash, Some(<<>>))

\* ON DUPLICATE KEY UPDATE.  MySQL evaluates the assignments left to right
\* and a column named on the right has its value as of that point, so the
\* assignments are applied in the order of the statement.
UpdateRow(row, v, ts) ==
  LET r1 == [row EXCEPT !.status_code = v.status_code,
                        !.crawl_status = v.crawl_status,
                        !.redirect_chain = v.redirect_chain,
                        !.fetch_mode = v.fetch_mode]
      r2 == [r1 EXCEPT !.html_content =
               IF HashGate(v.content_hash, r1.content_hash)
                 THEN v.html_content ELSE r1.html_content]
      r3 == [r2 EXCEPT !.clean_html =
               IF HashGate(v.content_hash, r2.content_hash)
                 THEN v.clean_html ELSE r2.clean_html]
      r4 == [r3 EXCEPT !.markdown = COALESCE(v.markdown, r3.markdown),
                       !.title = COALESCE(v.title, r3.title),
                       !.h1 = COALESCE(v.h1, r3.h1),
                       !.meta_description =
                          COALESCE(v.meta_description, r3.meta_description),
                       !.word_count = COALESCE(v.word_count, r3.word_count),
                       !.extraction_method =
                          COALESCE(v.extraction_method, r3.extraction_method),
                       !.junk_score = COALESCE(v.junk_score, r3.junk_score)]
      r5 == [r4 EXCEPT !.content_hash = COALESCE(v.content_hash, r4.content_hash)]
  IN  [r5 EXCEPT !.sitemap_type_hint =
                    COALESCE(v.sitemap_type_hint, r5.sitemap_type_hint),
                 !.last_error = v.last_error,
                 !.last_crawled_at = ts,
                 !.run_id = v.run_id]

\* the statement with sitemap_type_hint missing from the INSERT column list
upsertPageInsertWithoutHint(table, page, ts) ==
  LET v == PageParams(page)
  IN  IF v.final_url \in DOMAIN table
        THEN [table EXCEPT ![v.final_url] = UpdateRow(table[v.final_url], v, ts)]
        ELSE table @@ (v.final_url :>
               [InsertRow(v, ts) EXCEPT !.sitemap_type_hint = None])

\* upsertPage: the table after the statement, keyed by final_url
upsertPage(table, page, ts) ==
  LET v == PageParams(page)
  IN  IF v.final_url \in DOMAIN table
        THEN [table EXCEPT ![v.final_url] = UpdateRow(table[v.final_url], v, ts)]
        ELSE table @@ (v.final_url :> InsertRow(v, ts))

\* pageExists: SELECT 1 FROM crawler_pages WHERE final_url = ?
pageExists(table, finalUrl) == finalUrl \in DOMAIN table

(***************************************************************************)
(* url_aliases: one row per requested_url                                  *)
(***************************************************************************)
AliasParams(alias) ==
  [requested_url |-> alias.requested_url,
   final_url |-> alias.final_url,
   status_code |-> NumOrNull(alias.status_code),
   redirect_chain |-> alias.redirect_chain,
   run_id |-> NumOrNull(alias.run_id)]

upsertUrlAlias(table, alias, ts) ==
  LET v == AliasParams(alias)
  IN  IF v.requested_url \in DOMAIN table
        THEN [table EXCEPT ![v.requested_url] =
                [@ EXCEPT !.final_url = v.final_url,
                          !.status_code = v.status_code,
                          !.redirect_chain = v.redirect_chain,
                          !.last_seen_at = ts,
                          !.run_id = v.run_id]]
        ELSE table @@ (v.requested_url :>
                [requested_url |-> v.requested_url,
                 final_url |-> v.final_url,
                 status_code |-> v.status_code,
                 redirect_chain |-> v.redirect_chain,
                 first_seen_at |-> ts,
                 last_seen_at |-> ts,
                 run_id |-> v.run_id])

(***************************************************************************)
(* Sitemap intake                                                          *)
(***************************************************************************)
\* isValidUrl
isValidUrl(u) == ~NormalizeThrows(u)

\* parseSitemap: the entries {url, normalizedUrl, typeHint} of the valid
\* <loc> strings of one sitemap, in order
RECURSIVE parseSitemap(_, _)
parseSitemap(sites, typeHint) ==
  IF sites = <<>> THEN <<>>
  ELSE IF ~isValidUrl(Head(sites)) THEN parseSitemap(Tail(sites), typeHint)
       ELSE <<[url |-> Head(sites),
               normalizedUrl |-> normalizeUrl(Head(sites)),
               typeHint |-> typeHint]>> \o parseSitemap(Tail(sites), typeHint)

\* parseMultipleSitemaps: entries whose normalizedUrl was already seen are
\* dropped, the first one is kept
RECURSIVE DedupEntries(_, _)
DedupEntries(entries, seenUrls) ==
  IF entries = <<>> THEN <<>>
  ELSE IF Head(entries).normalizedUrl \in seenUrls
         THEN DedupEntries(Tail(entries), seenUrls)
         ELSE <<Head(entries)>> \o
              DedupEntries(Tail(entries), seenUrls \cup {Head(entries).normalizedUrl})

parseMultipleSitemaps(sites, typeHint) ==
  DedupEntries(parseSitemap(sites, typeHint), {})

(***************************************************************************)
(* The site and the sitemaps of the model                                  *)
(***************************************************************************)
U_old == Url("https", "ex.com", "/old", 0, <<>>, FALSE)

U_oldSlash == Url("https", "ex.com", "/old", 1, <<>>, FALSE)

U_oldSlashSlash == Url("https", "ex.com", "/old", 2, <<>>, FALSE)

U_oldUtm == Url("https", "EX.com", "/old", 0, <<"utm_source">>, FALSE)

U_new == Url("https", "ex.com", "/new", 0, <<>>, FALSE)

U_newSlashSlash == Url("https", "ex.com", "/new", 2, <<>>, FALSE)

U_noHost == Url("https", "", "/old", 0, <<>>, FALSE)

\* the sitemaps of the model: the <loc> strings of the file and the type
\* hint its filename gives (extractSitemapTypeHint)
Sitemaps ==
  {[sites |-> <<U_oldUtm, U_oldSlash>>, typeHint |-> None, asStrings |-> FALSE],
   [sites |-> <<U_old>>, typeHint |-> Some("post"), asStrings |-> FALSE],
   [sites |-> <<U_old>>, typeHint |-> None, asStrings |-> FALSE],
   [sites |-> <<U_old, U_new>>, typeHint |-> None, asStrings |-> FALSE],
   [sites |-> <<U_oldSlashSlash, U_oldSlash>>, typeHint |-> None,
    asStrings |-> FALSE],
   [sites |-> <<U_noHost, U_new>>, typeHint |-> Some("post"),
    asStrings |-> FALSE],
   [sites |-> <<U_old, U_new>>, typeHint |-> None, asStrings |-> TRUE],
   [sites |-> <<U_old>>, typeHint |-> None, asStrings |-> TRUE]}

\* what runCrawl reads of an element of urls that is a string and not an
\* entry: its url, normalizedUrl and typeHint are undefined
U_undefined == Url("", "", "", 0, <<>>, FALSE)

\* main: urls = sitemapUrls.map(entry => entry.normalizedUrl).  runCrawl
\* takes entries; the model covers a caller that hands it the entries
\* (asStrings FALSE) and main handing it the strings (asStrings TRUE)
UrlsOf(sm) ==
  LET sitemapUrls == parseMultipleSitemaps(sm.sites, sm.typeHint)
  IN  IF sm.asStrings
        THEN [i \in 1..Len(sitemapUrls) |->
                [url |-> U_undefined, normalizedUrl |-> U_undefined,
                 typeHint |-> None]]
        ELSE sitemapUrls

\* where the site may send a request for url: the URL itself or a redirect
LoadedUrls(url) == {url, U_new, U_newSlashSlash}

\* the responses of the site: status code and body
Responses ==
  {[statusCode |-> 200, body |-> <<"T", "M", "h", "P">>],
   [statusCode |-> 404, body |-> <<"T", "M", "h", "P">>],
   [statusCode |-> 200, body |-> <<"h", "P", " ">>],
   [statusCode |-> 200, body |-> <<"L">>],
   [statusCode |-> 200, body |-> <<"N">>],
   [statusCode |-> 200, body |-> <<"F", "L">>],
   [statusCode |-> 200, body |-> <<>>]}

ErrorMessages == {"ETIMEDOUT"}

\* the values of --max-pages of the model
MaxPagesOptions == {1, 2}

\* the retries the crawler gives a failed request; the code does not set
\* maxRequestRetries and the library's default applies
maxRequestRetries == 1

\* total number of sitemap URLs over all runs of a behaviour
MaxUrls == 2

NumWorkers == 2

Workers == 1..NumWorkers

(***************************************************************************)
(* runCrawl: what the handlers compute                                     *)
(***************************************************************************)
\* a CrawlerPageInsert with every optional property undefined
UndefinedPage(finalUrl, crawlStatus) ==
  [final_url |-> finalUrl, crawl_status |-> crawlStatus,
   requested_url_original |-> None, status_code |-> None,
   redirect_chain |-> None, html_content |-> None, clean_html |-> None,
   markdown |-> None, nav_structure |-> None, title |-> None, h1 |-> None,
   meta_description |-> None, word_count |-> None, content_hash |-> None,
   fetch_mode |-> None, extraction_method |-> None, junk_score |-> None,
   sitemap_type_hint |-> None, last_error |-> None, run_id |-> None]

\* requestedUrl = request.userData.originalUrl || request.loadedUrl || request.url
RequestedUrl(req) == req.userData.originalUrl

\* the chain pushed in the wrong order
RedirectChainReversed(requestedUrl, finalUrl) ==
  IF requestedUrl # finalUrl THEN <<finalUrl, requestedUrl>> ELSE <<>>

\* redirectChain: [requestedUrl, finalUrl] when the two strings differ
RedirectChain(requestedUrl, finalUrl) ==
  IF requestedUrl # finalUrl THEN <<requestedUrl, finalUrl>> ELSE <<>>

CrawlStatus(statusCode) ==
  IF statusCode = 404 \/ statusCode = 410 THEN "NOT_FOUND"
  ELSE IF statusCode >= 400 THEN "ERROR" ELSE "OK"

\* JavaScript  a || b  on strings
StrOr(a, b) == IF a # <<>> THEN a ELSE b

\* the contentHash of the request handler
ContentHash(cleaned, htmlContent) == hashHtmlContent(StrOr(cleaned, htmlContent))

\* pageData of the request handler
RequestPageData(req, loadedUrl, statusCode, htmlContent, run) ==
  LET requestedUrl == RequestedUrl(req)
      finalUrl == normalizeUrl(loadedUrl)
      redirectChain == RedirectChain(requestedUrl, finalUrl)
      metadata == extractMetadata(htmlContent)
      extraction == extractContent(htmlContent)
      markdown == IF extraction.success
                    THEN htmlToMarkdown(extraction.cleanHtml, metadata.h1)
                    ELSE <<>>
  IN  [UndefinedPage(finalUrl, CrawlStatus(statusCode)) EXCEPT
         !.requested_url_original = Some(requestedUrl),
         !.status_code = Some(statusCode),
         !.redirect_chain = IF Len(redirectChain) > 0 THEN Some(redirectChain) ELSE None,
         !.html_content = Some(htmlContent),
         !.clean_html = Some(extraction.cleanHtml),
         !.markdown = Some(markdown),
         !.nav_structure = Some("navStructure"),
         !.title = StrOrUndefined(Some(metadata.title)),
         !.h1 = StrOrUndefined(Some(metadata.h1)),
         !.meta_description = StrOrUndefined(Some(metadata.metaDescription)),
         !.word_count = Some(extraction.wordCount),
         !.content_hash = Some(ContentHash(extraction.cleanHtml, htmlContent)),
         !.fetch_mode = Some("cheerio"),
         !.extraction_method = Some(extraction.extractionMethod),
         !.junk_score = Some(calculateJunkScore(StrOr(extraction.cleanHtml, htmlContent))),
         !.sitemap_type_hint = TextOrNull(req.userData.sitemapTypeHint),
         !.run_id = Some(run)]

\* aliasData of the request handler
RequestAliasData(req, loadedUrl, statusCode, run) ==
  LET requestedUrl == RequestedUrl(req)
      finalUrl == normalizeUrl(loadedUrl)
  IN  [requested_url |-> requestedUrl,
       final_url |-> finalUrl,
       status_code |-> Some(statusCode),
       redirect_chain |-> Some(RedirectChain(requestedUrl, finalUrl)),
       run_id |-> Some(run)]

\* the record of a failed request without its error message
FailedPageDataWithoutError(req, message, run) ==
  [UndefinedPage(normalizeUrl(req.url), "ERROR") EXCEPT
     !.requested_url_original = Some(req.url),
     !.run_id = Some(run)]

\* the record of a failed request without the run_id
FailedPageDataWithoutRunId(req, message, run) ==
  [UndefinedPage(normalizeUrl(req.url), "ERROR") EXCEPT
     !.requested_url_original = Some(req.url),
     !.last_error = Some(message)]

\* pageData of the failed-request handler
FailedPageData(req, message, run) ==
  [UndefinedPage(normalizeUrl(req.url), "ERROR") EXCEPT
     !.requested_url_original = Some(req.url),
     !.last_error = Some(message),
     !.run_id = Some(run)]

(***************************************************************************)
(* State                                                                   *)
(***************************************************************************)
VARIABLES
  pages,       \* crawler_pages: final_url -> row
  aliases,     \* url_aliases: requested_url -> row
  runId,       \* the number of runs started (the run_id of the current run)
  phase,       \* "idle" (no run in progress), "enqueue", "crawl"
  recrawl,     \* options.recrawl of the current run
  urls,        \* the urls argument of runCrawl
  idx,         \* position of the enqueue loop in urls
  queuedUrls,  \* the in-memory Set of queued normalized URLs
  queue,       \* the request queue: requests not yet taken by a worker
  stats,       \* CrawlStats
  wk,          \* per worker: the request in flight and where its handler is
  used,        \* sitemap URLs consumed so far (bounds the behaviour)
  maxPages,    \* options.maxPages of the current run (maxRequestsPerCrawl)
  handledRequestsCount,
               \* the crawler's count of requests handled in the run
  runs,        \* crawl_runs: run_id -> row
  call,        \* the function applied on its own, its input and its result
  bf,          \* the backfill script: its rows, its batch and its position
  hist         \* history of the current run, read by the properties only:
               \*   sitemap   the sitemap the run was started with
               \*   base      crawler_pages when the run started
               \*   applied   the page records whose upsert was executed
               \*   raced     final_urls written while another handler for the
               \*             same final_url was in flight
               \*   rejected  TRUE once a database call of the run was rejected
               \*   last      the latest page upsert: row before, record, row
               \*             after, and the write that preceded it on the row
               \*   done      the latest request handler that ran to its end
               \*   prev      final_url -> the latest write of the row (all runs)
               \*   events    the awaited writes of the run, counted by outcome

vars == <<pages, aliases, runId, phase, recrawl, urls, idx, queuedUrls, queue,
          stats, wk, used, maxPages, handledRequestsCount, runs, call, bf,
          hist>>

\* the clock of CURRENT_TIMESTAMP advances once per run
CurrentTimestamp == runId

EmptyTable == [k \in {} |-> None]

IdleWorker == [pc |-> "idle"]

NoUpsert == [kind |-> "none"]

NoHandler == [kind |-> "none"]

\* no function is applied on its own
NoCall == [fn |-> "none"]

\* the backfill script is not running
NoBackfill == [pc |-> "none"]

\* the outcomes of the awaited writes of a run, counted as they happen
NoEvents ==
  [pageSaved |-> 0, pageSaveFailed |-> 0, aliasSaved |-> 0,
   requestFailed |-> 0]

Counted(h, event) == [h EXCEPT !.events[event] = @ + 1]

ZeroStats(n) ==
  [urlsDiscovered |-> n, pagesCrawled |-> 0, pagesSkipped |-> 0,
   redirects |-> 0, errors |-> 0]

\* the crawler before its first run
InitCrawler ==
  /\ pages = EmptyTable
  /\ aliases = EmptyTable
  /\ runId = 0
  /\ phase = "idle"
  /\ recrawl = FALSE
  /\ urls = <<>>
  /\ idx = 1
  /\ queuedUrls = {}
  /\ queue = {}
  /\ stats = ZeroStats(0)
  /\ wk = [w \in Workers |-> IdleWorker]
  /\ used = 0
  /\ maxPages = 1
  /\ handledRequestsCount = 0
  /\ runs = EmptyTable
  /\ hist = [sitemap |-> [sites |-> <<>>, typeHint |-> None,
                         asStrings |-> FALSE],
             base |-> EmptyTable, applied |-> {}, raced |-> {},
             rejected |-> FALSE, last |-> NoUpsert, done |-> NoHandler,
             prev |-> EmptyTable, events |-> NoEvents]

Init == InitCrawler /\ call = NoCall /\ bf = NoBackfill

(***************************************************************************)
(* crawl_runs: one row per run_id                                          *)
(***************************************************************************)
\* createCrawlRun: INSERT INTO crawl_runs
createCrawlRun(table, run, ts) ==
  table @@ (run.run_id :>
    [run_id |-> run.run_id,
     max_pages |-> NumOrNull(Some(run.max_pages)),
     started_at |-> ts,
     finished_at |-> None,
     total_urls_discovered |-> 0,
     total_pages_crawled |-> 0,
     total_redirects |-> 0,
     total_errors |-> 0])

\* updateCrawlRun with the four counters main passes
updateCrawlRun(table, run, s) ==
  IF run \in DOMAIN table
    THEN [table EXCEPT ![run] =
            [@ EXCEPT !.total_urls_discovered = s.total_urls_discovered,
                      !.total_pages_crawled = s.total_pages_crawled,
                      !.total_redirects = s.total_redirects,
                      !.total_errors = s.total_errors]]
    ELSE table

\* finishCrawlRun: SET finished_at = CURRENT_TIMESTAMP
finishCrawlRun(table, run, ts) ==
  IF run \in DOMAIN table
    THEN [table EXCEPT ![run] = [@ EXCEPT !.finished_at = Some(ts)]]
    ELSE table

(***************************************************************************)
(* main: parse the sitemaps, create the run, call runCrawl                 *)
(***************************************************************************)
StartRun ==
  /\ phase = "idle"
  /\ \E sm \in Sitemaps, rc \in BOOLEAN, mp \in MaxPagesOptions :
       /\ used + Len(sm.sites) <= MaxUrls
       \* a cap above the number of listed URLs never acts
       /\ mp <= Len(sm.sites)
       /\ parseMultipleSitemaps(sm.sites, sm.typeHint) # <<>>
       /\ used' = used + Len(sm.sites)
       /\ urls' = UrlsOf(sm)
       /\ recrawl' = rc
       /\ maxPages' = mp
       /\ runs' = createCrawlRun(runs, [run_id |-> runId + 1, max_pages |-> mp],
                                 runId + 1)
       /\ hist' = [hist EXCEPT !.sitemap = sm, !.base = pages, !.applied = {},
                               !.raced = {}, !.rejected = FALSE,
                               !.last = NoUpsert, !.done = NoHandler,
                               !.events = NoEvents]
  /\ runId' = runId + 1
  /\ phase' = "enqueue"
  /\ idx' = 1
  /\ queuedUrls' = {}
  /\ queue' = {}
  /\ stats' = ZeroStats(Len(urls'))
  /\ handledRequestsCount' = 0
  /\ UNCHANGED <<call, bf, pages, aliases, wk>>

(***************************************************************************)
(* runCrawl: await RequestQueue.open() rejects; runCrawl and main reject   *)
(* and the action handler of the command exits the process                 *)
(***************************************************************************)
OpenQueueError ==
  /\ phase = "enqueue" /\ idx = 1
  /\ phase' = "idle"
  /\ hist' = [hist EXCEPT !.rejected = TRUE]
  /\ UNCHANGED <<call, bf, pages, aliases, runId, runs, maxPages, handledRequestsCount,
                 recrawl, urls, idx, queuedUrls, queue, stats, wk, used>>

(***************************************************************************)
(* runCrawl: one iteration of the enqueue loop                             *)
(***************************************************************************)
\* the iteration ends in `continue`: the URL is already in queuedUrls
EnqueueDuplicate ==
  /\ phase = "enqueue" /\ idx <= Len(urls)
  /\ ~NormalizeThrows(urls[idx].normalizedUrl)
  /\ normalizeUrl(urls[idx].normalizedUrl) \in queuedUrls
  /\ idx' = idx + 1
  /\ UNCHANGED <<call, bf, pages, aliases, runId, runs, maxPages, handledRequestsCount,
                 phase, recrawl, urls, queuedUrls, queue,
                 stats, wk, used, hist>>

\* the iteration ends in `continue`: the page exists and recrawl is off
EnqueueSkipExisting ==
  /\ phase = "enqueue" /\ idx <= Len(urls)
  /\ ~NormalizeThrows(urls[idx].normalizedUrl)
  /\ normalizeUrl(urls[idx].normalizedUrl) \notin queuedUrls
  /\ ~recrawl /\ pageExists(pages, normalizeUrl(urls[idx].normalizedUrl))
  /\ stats' = [stats EXCEPT !.pagesSkipped = @ + 1]
  /\ idx' = idx + 1
  /\ UNCHANGED <<call, bf, pages, aliases, runId, runs, maxPages, handledRequestsCount,
                 phase, recrawl, urls, queuedUrls, queue,
                 wk, used, hist>>

\* the iteration adding the request without the test of queuedUrls
EnqueueAddQueuedAgain ==
  /\ phase = "enqueue" /\ idx <= Len(urls)
  /\ ~NormalizeThrows(urls[idx].normalizedUrl)
  /\ LET normalized == normalizeUrl(urls[idx].normalizedUrl)
     IN  /\ recrawl \/ ~pageExists(pages, normalized)
         /\ queue' = queue \cup
              {[url |-> normalized, retryCount |-> 0,
                userData |-> [originalUrl |-> urls[idx].url,
                              sitemapTypeHint |-> urls[idx].typeHint]]}
         /\ queuedUrls' = queuedUrls \cup {normalized}
  /\ idx' = idx + 1
  /\ UNCHANGED <<call, bf, pages, aliases, runId, runs, maxPages, handledRequestsCount,
                 phase, recrawl, urls, stats, wk, used, hist>>

\* the iteration adds the request and records the URL in queuedUrls
EnqueueAdd ==
  /\ phase = "enqueue" /\ idx <= Len(urls)
  /\ ~NormalizeThrows(urls[idx].normalizedUrl)
  /\ LET normalized == normalizeUrl(urls[idx].normalizedUrl)
     IN  /\ normalized \notin queuedUrls
         /\ recrawl \/ ~pageExists(pages, normalized)
         /\ queue' = queue \cup
              {[url |-> normalized, retryCount |-> 0,
                userData |-> [originalUrl |-> urls[idx].url,
                              sitemapTypeHint |-> urls[idx].typeHint]]}
         /\ queuedUrls' = queuedUrls \cup {normalized}
  /\ idx' = idx + 1
  /\ UNCHANGED <<call, bf, pages, aliases, runId, runs, maxPages, handledRequestsCount,
                 phase, recrawl, urls, stats, wk, used,
                 hist>>

\* the catch block of the iteration counting the dropped URL as an error
EnqueueCatchCountsError ==
  /\ phase = "enqueue" /\ idx <= Len(urls)
  /\ IF NormalizeThrows(urls[idx].normalizedUrl)
       THEN UNCHANGED hist
       ELSE /\ normalizeUrl(urls[idx].normalizedUrl) \notin queuedUrls
            /\ hist' = [hist EXCEPT !.rejected = TRUE]
  /\ idx' = idx + 1
  /\ stats' = [stats EXCEPT !.errors = @ + 1]
  /\ UNCHANGED <<call, bf, pages, aliases, runId, runs, maxPages, handledRequestsCount,
                 phase, recrawl, urls, queuedUrls, queue, wk, used>>

\* the iteration ends in the catch block: normalizeUrl threw, or the
\* pageExists query or addRequest was rejected; the URL is dropped with a
\* warning
EnqueueCatch ==
  /\ phase = "enqueue" /\ idx <= Len(urls)
  /\ IF NormalizeThrows(urls[idx].normalizedUrl)
       THEN UNCHANGED hist
       ELSE /\ normalizeUrl(urls[idx].normalizedUrl) \notin queuedUrls
            /\ hist' = [hist EXCEPT !.rejected = TRUE]
  /\ idx' = idx + 1
  /\ UNCHANGED <<call, bf, pages, aliases, runId, runs, maxPages, handledRequestsCount,
                 phase, recrawl, urls, queuedUrls, queue,
                 stats, wk, used>>

\* the loop is over: crawler.run() starts the workers
EnqueueDone ==
  /\ phase = "enqueue" /\ idx > Len(urls)
  /\ phase' = "crawl"
  /\ UNCHANGED <<call, bf, pages, aliases, runId, runs, maxPages, handledRequestsCount,
                 recrawl, urls, idx, queuedUrls, queue,
                 stats, wk, used, hist>>

(***************************************************************************)
(* The handlers.  A handler is suspended at each await; the steps below    *)
(* are the stretches between two awaits, and the workers interleave them.  *)
(***************************************************************************)
\* the statement computed from the row as it was when the run started: the
\* write of a handler that finished in between is lost
ExecuteUpsertPageOnStaleRow(table, page, ts) ==
  IF page.final_url \in DOMAIN table
    THEN [table EXCEPT ![page.final_url] =
            upsertPage(hist.base, page, ts)[page.final_url]]
    ELSE upsertPage(table, page, ts)

\* pool.execute of the page statement: the statement runs on the table as it
\* is when the database executes it
ExecuteUpsertPage(table, page, ts) == upsertPage(table, page, ts)

\* the final_url a handler in flight is about to write, None when it has no
\* page write ahead
TargetOf(worker) ==
  IF worker.pc = "page" THEN Some(normalizeUrl(worker.loadedUrl))
  ELSE IF worker.pc = "failed" THEN Some(normalizeUrl(worker.req.url))
  ELSE None

RacedBy(w, finalUrl) ==
  IF \E o \in Workers \ {w} : TargetOf(wk[o]) = Some(finalUrl)
    THEN {finalUrl} ELSE {}

\* the row of a table as an option
RowOf(table, key) == IF key \in DOMAIN table THEN Some(table[key]) ELSE None

\* the history entry of a page upsert
Upserted(kind, w, page, write) ==
  [hist EXCEPT
     !.applied = @ \cup {page},
     !.raced = @ \cup RacedBy(w, page.final_url),
     !.last = [kind |-> kind,
               write |-> write,
               pre |-> RowOf(pages, page.final_url),
               page |-> page,
               post |-> pages'[page.final_url],
               before |-> IF page.final_url \in DOMAIN hist.prev
                            THEN hist.prev[page.final_url] ELSE NoUpsert],
     !.prev = IF page.final_url \in DOMAIN @
                THEN [@ EXCEPT ![page.final_url] = write]
                ELSE @ @@ (page.final_url :> write)]

\* the crawler stops taking requests once it has handled maxRequestsPerCrawl
\* of them; requests in flight at that time run to their end
isTaskReady == phase = "crawl" /\ handledRequestsCount < maxPages

\* the pool runs a task in its first free slot
FreeSlot(w) ==
  /\ wk[w].pc = "idle"
  /\ \A v \in Workers : v < w => wk[v].pc # "idle"

\* what the handlers read of a request
HandlerRequest(req) == [url |-> req.url, userData |-> req.userData]

\* a worker takes a request and the site answers
FetchResponse(w) ==
  /\ isTaskReady /\ FreeSlot(w)
  /\ \E req \in queue, resp \in Responses :
       \E loadedUrl \in LoadedUrls(req.url) :
         /\ queue' = queue \ {req}
         /\ wk' = [wk EXCEPT ![w] =
              [pc |-> "page", req |-> HandlerRequest(req), loadedUrl |-> loadedUrl,
               statusCode |-> resp.statusCode, body |-> resp.body,
               pageOk |-> FALSE]]
  /\ UNCHANGED <<call, bf, pages, aliases, runId, runs, maxPages, handledRequestsCount,
                 phase, recrawl, urls, idx, queuedUrls, stats, used, hist>>

\* a worker takes a request, the fetch fails and the request has retries
\* left: the crawler puts it back in the queue
FetchRetry(w) ==
  /\ isTaskReady /\ FreeSlot(w)
  /\ \E req \in queue :
       /\ req.retryCount < maxRequestRetries
       /\ queue' = (queue \ {req}) \cup
                     {[req EXCEPT !.retryCount = @ + 1]}
  /\ UNCHANGED <<call, bf, pages, aliases, runId, runs, maxPages, handledRequestsCount,
                 phase, recrawl, urls, idx, queuedUrls, stats, wk, used, hist>>

\* a worker takes a request, the fetch fails and no retry is left:
\* failedRequestHandler
FetchFailure(w) ==
  /\ isTaskReady /\ FreeSlot(w)
  /\ \E req \in queue, message \in ErrorMessages :
       /\ req.retryCount >= maxRequestRetries
       /\ queue' = queue \ {req}
       /\ wk' = [wk EXCEPT ![w] =
            [pc |-> "failed", req |-> HandlerRequest(req),
             message |-> message]]
  /\ UNCHANGED <<call, bf, pages, aliases, runId, runs, maxPages, handledRequestsCount,
                 phase, recrawl, urls, idx, queuedUrls, stats, used, hist>>

PageDataOf(w) ==
  RequestPageData(wk[w].req, wk[w].loadedUrl, wk[w].statusCode, wk[w].body, runId)

AliasDataOf(w) ==
  RequestAliasData(wk[w].req, wk[w].loadedUrl, wk[w].statusCode, runId)

\* the history entry of a request handler that ran to its end
HandlerDone(w, pageOk, aliasOk) ==
  [kind |-> "request", req |-> wk[w].req,
   loadedUrl |-> wk[w].loadedUrl,
   finalUrl |-> normalizeUrl(wk[w].loadedUrl),
   redirect |-> RedirectChain(RequestedUrl(wk[w].req),
                              normalizeUrl(wk[w].loadedUrl)) # <<>>,
   pageOk |-> pageOk, aliasOk |-> aliasOk]

\* the handler returning from the catch block of the page write
AfterPageReturnsOnError(w, pageOk, h) ==
  IF pageOk /\ RedirectChain(RequestedUrl(wk[w].req),
                             normalizeUrl(wk[w].loadedUrl)) # <<>>
    THEN /\ wk' = [wk EXCEPT ![w] = [@ EXCEPT !.pc = "alias", !.pageOk = pageOk]]
         /\ hist' = h
         /\ UNCHANGED handledRequestsCount
    ELSE /\ wk' = [wk EXCEPT ![w] = IdleWorker]
         /\ hist' = [h EXCEPT !.done = HandlerDone(w, pageOk, FALSE)]
         /\ handledRequestsCount' = handledRequestsCount + 1

\* after the page try/catch: on to the alias block when a redirect was
\* seen, else the handler returns and the crawler counts the request
AfterPage(w, pageOk, h) ==
  IF RedirectChain(RequestedUrl(wk[w].req), normalizeUrl(wk[w].loadedUrl)) # <<>>
    THEN /\ wk' = [wk EXCEPT ![w] = [@ EXCEPT !.pc = "alias", !.pageOk = pageOk]]
         /\ hist' = h
         /\ UNCHANGED handledRequestsCount
    ELSE /\ wk' = [wk EXCEPT ![w] = IdleWorker]
         /\ hist' = [h EXCEPT !.done = HandlerDone(w, pageOk, FALSE)]
         /\ handledRequestsCount' = handledRequestsCount + 1

\* the handler writing pagesCrawled back from a value read before the await:
\* the increment is lost when another handler is in flight
SavePageLosingIncrement(w) ==
  /\ wk[w].pc = "page"
  /\ pages' = ExecuteUpsertPage(pages, PageDataOf(w), CurrentTimestamp)
  /\ stats' = [stats EXCEPT !.pagesCrawled =
                 IF \E v \in Workers \ {w} : wk[v].pc # "idle"
                   THEN @ ELSE @ + 1]
  /\ AfterPage(w, TRUE,
       Counted(Upserted("request", w, PageDataOf(w),
                        [kind |-> "request", req |-> wk[w].req,
                         body |-> wk[w].body]),
               "pageSaved"))
  /\ UNCHANGED <<call, bf, aliases, runId, runs, maxPages, phase, recrawl, urls, idx,
                 queuedUrls, queue, used>>

\* requestHandler: await upsertPage resolves
SavePage(w) ==
  /\ wk[w].pc = "page"
  /\ pages' = ExecuteUpsertPage(pages, PageDataOf(w), CurrentTimestamp)
  /\ stats' = [stats EXCEPT !.pagesCrawled = @ + 1]
  /\ AfterPage(w, TRUE,
       Counted(Upserted("request", w, PageDataOf(w),
                        [kind |-> "request", req |-> wk[w].req,
                         body |-> wk[w].body]),
               "pageSaved"))
  /\ UNCHANGED <<call, bf, aliases, runId, runs, maxPages, phase, recrawl, urls, idx,
                 queuedUrls, queue, used>>

\* requestHandler: await upsertPage rejects
SavePageError(w) ==
  /\ wk[w].pc = "page"
  /\ stats' = [stats EXCEPT !.errors = @ + 1]
  /\ AfterPage(w, FALSE,
       Counted([hist EXCEPT !.rejected = TRUE], "pageSaveFailed"))
  /\ UNCHANGED <<call, bf, pages, aliases, runId, runs, maxPages, phase, recrawl, urls,
                 idx, queuedUrls, queue, used>>

\* requestHandler: await upsertUrlAlias resolves
SaveAlias(w) ==
  /\ wk[w].pc = "alias"
  /\ aliases' = upsertUrlAlias(aliases, AliasDataOf(w), CurrentTimestamp)
  /\ stats' = [stats EXCEPT !.redirects = @ + 1]
  /\ hist' = Counted([hist EXCEPT !.done = HandlerDone(w, wk[w].pageOk, TRUE)],
                     "aliasSaved")
  /\ wk' = [wk EXCEPT ![w] = IdleWorker]
  /\ handledRequestsCount' = handledRequestsCount + 1
  /\ UNCHANGED <<call, bf, pages, runId, runs, maxPages, phase, recrawl, urls, idx,
                 queuedUrls, queue, used>>

\* requestHandler: await upsertUrlAlias rejects
SaveAliasError(w) ==
  /\ wk[w].pc = "alias"
  /\ hist' = [hist EXCEPT !.done = HandlerDone(w, wk[w].pageOk, FALSE),
                          !.rejected = TRUE]
  /\ wk' = [wk EXCEPT ![w] = IdleWorker]
  /\ handledRequestsCount' = handledRequestsCount + 1
  /\ UNCHANGED <<call, bf, pages, aliases, runId, runs, maxPages, phase, recrawl, urls,
                 idx, queuedUrls, queue, stats, used>>

FailedDataOf(w) == FailedPageData(wk[w].req, wk[w].message, runId)

\* failedRequestHandler: await upsertPage resolves
SaveFailed(w) ==
  /\ wk[w].pc = "failed"
  /\ pages' = ExecuteUpsertPage(pages, FailedDataOf(w), CurrentTimestamp)
  /\ stats' = [stats EXCEPT !.errors = @ + 1]
  /\ hist' = Counted(Upserted("failed", w, FailedDataOf(w),
                              [kind |-> "failed", req |-> wk[w].req,
                               body |-> <<>>]),
                     "requestFailed")
  /\ wk' = [wk EXCEPT ![w] = IdleWorker]
  /\ handledRequestsCount' = handledRequestsCount + 1
  /\ UNCHANGED <<call, bf, aliases, runId, runs, maxPages, phase, recrawl, urls, idx,
                 queuedUrls, queue, used>>

\* failedRequestHandler: await upsertPage rejects
SaveFailedError(w) ==
  /\ wk[w].pc = "failed"
  /\ stats' = [stats EXCEPT !.errors = @ + 1]
  /\ hist' = Counted([hist EXCEPT !.rejected = TRUE], "requestFailed")
  /\ wk' = [wk EXCEPT ![w] = IdleWorker]
  /\ handledRequestsCount' = handledRequestsCount + 1
  /\ UNCHANGED <<call, bf, pages, aliases, runId, runs, maxPages, phase, recrawl, urls,
                 idx, queuedUrls, queue, used>>

\* crawler.run() resolves: no handler is in flight and the queue is empty
\* or the crawler has handled maxRequestsPerCrawl requests; runCrawl
\* returns the stats
FinishRun ==
  /\ phase = "crawl"
  /\ queue = {} \/ handledRequestsCount >= maxPages
  /\ \A w \in Workers : wk[w].pc = "idle"
  /\ phase' = "update"
  /\ UNCHANGED <<call, bf, pages, aliases, runId, runs, maxPages, handledRequestsCount,
                 recrawl, urls, idx, queuedUrls, queue, stats, wk, used, hist>>

\* main: await updateCrawlRun resolves
UpdateCrawlRun ==
  /\ phase = "update"
  /\ runs' = updateCrawlRun(runs, runId,
               [total_urls_discovered |-> stats.urlsDiscovered,
                total_pages_crawled |-> stats.pagesCrawled,
                total_redirects |-> stats.redirects,
                total_errors |-> stats.errors])
  /\ phase' = "finish"
  /\ UNCHANGED <<call, bf, pages, aliases, runId, maxPages, handledRequestsCount,
                 recrawl, urls, idx, queuedUrls, queue, stats, wk, used, hist>>

\* main: await updateCrawlRun rejects; main rejects and the action handler
\* of the command logs 'Crawl failed' and exits the process
UpdateCrawlRunError ==
  /\ phase = "update"
  /\ phase' = "idle"
  /\ hist' = [hist EXCEPT !.rejected = TRUE]
  /\ UNCHANGED <<call, bf, pages, aliases, runId, runs, maxPages, handledRequestsCount,
                 recrawl, urls, idx, queuedUrls, queue, stats, wk, used>>

\* main: await finishCrawlRun resolves; the process ends
FinishCrawlRun ==
  /\ phase = "finish"
  /\ runs' = finishCrawlRun(runs, runId, CurrentTimestamp)
  /\ phase' = "idle"
  /\ UNCHANGED <<call, bf, pages, aliases, runId, maxPages, handledRequestsCount,
                 recrawl, urls, idx, queuedUrls, queue, stats, wk, used, hist>>

\* main: await finishCrawlRun rejects; the process exits
FinishCrawlRunError ==
  /\ phase = "finish"
  /\ phase' = "idle"
  /\ hist' = [hist EXCEPT !.rejected = TRUE]
  /\ UNCHANGED <<call, bf, pages, aliases, runId, runs, maxPages, handledRequestsCount,
                 recrawl, urls, idx, queuedUrls, queue, stats, wk, used>>

Next ==
  \/ StartRun
  \/ OpenQueueError
  \/ EnqueueDuplicate
  \/ EnqueueSkipExisting
  \/ EnqueueAdd
  \/ EnqueueCatch
  \/ EnqueueDone
  \/ \E w \in Workers : FetchResponse(w)
  \/ \E w \in Workers : FetchRetry(w)
  \/ \E w \in Workers : FetchFailure(w)
  \/ \E w \in Workers : SavePage(w)
  \/ \E w \in Workers : SavePageError(w)
  \/ \E w \in Workers : SaveAlias(w)
  \/ \E w \in Workers : SaveAliasError(w)
  \/ \E w \in Workers : SaveFailed(w)
  \/ \E w \in Workers : SaveFailedError(w)
  \/ FinishRun
  \/ UpdateCrawlRun
  \/ UpdateCrawlRunError
  \/ FinishCrawlRun
  \/ FinishCrawlRunError

Spec == Init /\ [][Next]_vars

\* the variables of the crawler
crawlerVars ==
  <<pages, aliases, runId, phase, recrawl, urls, idx, queuedUrls, queue,
    stats, wk, used, maxPages, handledRequestsCount, runs, hist>>

(***************************************************************************)
(* The functions of the program applied on their own: the initial state    *)
(* holds the input, the step applies the function to it.                   *)
(***************************************************************************)
\* response?.statusCode || 0: the status codes, and 0 for a missing one
StatusCodes == 0..599

InitCrawlStatus ==
  \E statusCode \in StatusCodes :
    call = [fn |-> "CrawlStatus", statusCode |-> statusCode, result |-> None]

ApplyCrawlStatus ==
  /\ call.fn = "CrawlStatus" /\ call.result = None
  /\ call' = [call EXCEPT !.result = Some(CrawlStatus(call.statusCode))]
  /\ UNCHANGED <<crawlerVars, bf>>

CrawlStatusInit ==
  /\ InitCrawler /\ bf = NoBackfill
  /\ InitCrawlStatus

CrawlStatusNext ==
  \/ ApplyCrawlStatus

CrawlStatusSpec == CrawlStatusInit /\ [][CrawlStatusNext]_vars

\* the URL strings normalizeUrl is applied to
MaxTrail == 2

MaxQueryLen == 2

QueryKeys == {"a", "a2", "b", "utm_source", "utm_name"}

Queries == UNION {[1..n -> QueryKeys] : n \in 0..MaxQueryLen}

Urls ==
  {Url(s, h, b, t, q, f) :
     s \in {"https", "http", ""}, h \in {"ex.com", "EX.com", ""},
     b \in {"", "/old"}, t \in 0..MaxTrail, q \in Queries, f \in BOOLEAN}

\* the https URLs of the model that normalizeUrl accepts
AcceptedUrls == {u \in Urls : u.scheme = "https" /\ ~NormalizeThrows(u)}

InitNormalizeUrl ==
  \E u \in Urls :
    call = [fn |-> "normalizeUrl", url |-> u, result |-> None,
            threw |-> FALSE]

\* two URLs of one scheme and one path, apart from the trailing slashes
InitNormalizeUrlPair ==
  \E a \in AcceptedUrls :
    \E b \in {u \in AcceptedUrls : u.base = a.base} :
      call = [fn |-> "normalizeUrlPair", a |-> a, b |-> b, results |-> None]

ApplyNormalizeUrl ==
  /\ call.fn = "normalizeUrl" /\ call.result = None /\ ~call.threw
  /\ call' = IF NormalizeThrows(call.url)
               THEN [call EXCEPT !.threw = TRUE]
               ELSE [call EXCEPT !.result = Some(normalizeUrl(call.url))]
  /\ UNCHANGED <<crawlerVars, bf>>

ApplyNormalizeUrlPair ==
  /\ call.fn = "normalizeUrlPair" /\ call.results = None
  /\ call' = [call EXCEPT !.results =
                 Some(<<normalizeUrl(call.a), normalizeUrl(call.b)>>)]
  /\ UNCHANGED <<crawlerVars, bf>>

NormalizeInit ==
  /\ InitCrawler /\ bf = NoBackfill
  /\ InitNormalizeUrl \/ InitNormalizeUrlPair

NormalizeNext ==
  \/ ApplyNormalizeUrl
  \/ ApplyNormalizeUrlPair

NormalizeSpec == NormalizeInit /\ [][NormalizeNext]_vars

(***************************************************************************)
(* Structural elements: character ranges of the HTML string with a type    *)
(***************************************************************************)
MaxPosition == 4

MaxElements == 2

\* detectStructuralElements pushes the elements detector by detector
DetectorRank(type) ==
  CASE type = "faq" -> 1 [] type = "cta" -> 2 [] type = "testimonial" -> 3

StructuralElements ==
  {[type |-> ty, startIndex |-> a, endIndex |-> b] :
     ty \in {"faq", "cta", "testimonial"},
     a \in 0..MaxPosition, b \in 0..MaxPosition}

\* the ranges of two elements of a document are nested or apart
NestedOrApart(e, f) ==
  \/ e.endIndex < f.startIndex \/ f.endIndex < e.startIndex
  \/ e.startIndex <= f.startIndex /\ f.endIndex <= e.endIndex
  \/ f.startIndex <= e.startIndex /\ e.endIndex <= f.endIndex

\* the lists detectStructuralElements returns: ranges of outerHTML, in the
\* order of the detectors and, within a detector, of the document
DetectedLists ==
  {l \in UNION {[1..n -> {e \in StructuralElements :
                             e.startIndex < e.endIndex}] :
                  n \in 0..MaxElements} :
     \A i \in 1..Len(l), j \in 1..Len(l) :
       i < j =>
         /\ NestedOrApart(l[i], l[j])
         /\ DetectorRank(l[i].type) <= DetectorRank(l[j].type)
         /\ DetectorRank(l[i].type) = DetectorRank(l[j].type) =>
              l[i].startIndex < l[j].startIndex}

\* getStructuralTypeAtPosition: the first element of the list whose range
\* holds the position, or null
RECURSIVE getStructuralTypeAtPosition(_, _)
getStructuralTypeAtPosition(position, elements) ==
  IF elements = <<>> THEN None
  ELSE IF position >= Head(elements).startIndex
            /\ position <= Head(elements).endIndex
         THEN Some(Head(elements))
         ELSE getStructuralTypeAtPosition(position, Tail(elements))

InitStructural ==
  \E position \in 0..MaxPosition, elements \in DetectedLists :
    call = [fn |-> "getStructuralTypeAtPosition", position |-> position,
            elements |-> elements, returned |-> FALSE, result |-> None]

ApplyGetStructuralTypeAtPosition ==
  /\ call.fn = "getStructuralTypeAtPosition" /\ ~call.returned
  /\ call' = [call EXCEPT
                 !.returned = TRUE,
                 !.result = getStructuralTypeAtPosition(call.position,
                                                        call.elements)]
  /\ UNCHANGED <<crawlerVars, bf>>

StructuralInit ==
  /\ InitCrawler /\ bf = NoBackfill
  /\ InitStructural

StructuralNext ==
  \/ ApplyGetStructuralTypeAtPosition

StructuralSpec == StructuralInit /\ [][StructuralNext]_vars

(***************************************************************************)
(* Navigation menus.  A menu is the sequence of its <li> entries; an entry  *)
(* is usable when it has a link with a usable href and a label, it is a     *)
(* utility link or not, and it has a submenu of entries of the same kind.   *)
(* The label of an entry is its position in the menu.                       *)
(***************************************************************************)
MaxMenuItems == 2

MaxSubmenuItems == 2

SubmenuEntries == [usable : BOOLEAN, utility : BOOLEAN]

Submenus == UNION {[1..n -> SubmenuEntries] : n \in 0..MaxSubmenuItems}

MenuEntries == [usable : BOOLEAN, utility : BOOLEAN, submenu : Submenus]

Menus == UNION {[1..n -> MenuEntries] : n \in 0..MaxMenuItems}

\* extractSubmenuItems: the usable entries of the submenu, order = the
\* index of the <li> in the submenu
RECURSIVE extractSubmenuItems(_, _, _, _)
extractSubmenuItems(submenu, index, items, parent) ==
  IF index >= Len(submenu) THEN items
  ELSE extractSubmenuItems(submenu, index + 1,
         IF submenu[index + 1].usable
           THEN Append(items, [depth |-> 1, order |-> index,
                               label |-> <<parent, index + 1>>,
                               parent_labels |-> <<parent>>,
                               utility |-> submenu[index + 1].utility])
           ELSE items,
         parent)

\* extractMenuItems: the usable top-level entries, order = items.length at
\* the push, each followed by the items of its submenu
RECURSIVE extractMenuItems(_, _, _)
extractMenuItems(menu, index, items) ==
  IF index >= Len(menu) THEN items
  ELSE extractMenuItems(menu, index + 1,
         IF menu[index + 1].usable
           THEN extractSubmenuItems(menu[index + 1].submenu, 0,
                  Append(items, [depth |-> 0, order |-> Len(items),
                                 label |-> <<index + 1>>,
                                 parent_labels |-> <<>>,
                                 utility |-> menu[index + 1].utility]),
                  index + 1)
           ELSE items)

\* Array.prototype.filter(item => !isUtilityLink(item.url))
RECURSIVE FilterUtility(_)
FilterUtility(items) ==
  IF items = <<>> THEN <<>>
  ELSE IF Head(items).utility THEN FilterUtility(Tail(items))
       ELSE <<Head(items)>> \o FilterUtility(Tail(items))

\* extractPrimaryNav on a container of internal links: the items without
\* the utility links when 3 or more are left, else no cluster
extractPrimaryNav(menu) ==
  LET items == extractMenuItems(menu, 0, <<>>)
      cleanItems == FilterUtility(items)
  IN  IF Len(items) >= 3 /\ Len(cleanItems) >= 3 THEN cleanItems ELSE <<>>

InitNav ==
  \E menu \in Menus :
    call = [fn |-> "extractPrimaryNav", menu |-> menu, returned |-> FALSE,
            items |-> <<>>]

ApplyExtractPrimaryNav ==
  /\ call.fn = "extractPrimaryNav" /\ ~call.returned
  /\ call' = [call EXCEPT !.returned = TRUE,
                          !.items = extractPrimaryNav(call.menu)]
  /\ UNCHANGED <<crawlerVars, bf>>

NavInit ==
  /\ InitCrawler /\ bf = NoBackfill
  /\ InitNav

NavNext ==
  \/ ApplyExtractPrimaryNav

NavSpec == NavInit /\ [][NavNext]_vars

(***************************************************************************)
(* backfillNavStructure, the script that fills nav_structure of the rows    *)
(* of crawler_pages that have none.  A row has its html_content (NULL, the  *)
(* empty string, HTML whose navigation is extracted and stored, HTML for    *)
(* which extractNavStructure throws, HTML whose UPDATE is rejected) and     *)
(* whether its nav_structure is NULL.  The counters of the script are kept  *)
(* up to MaxCount, the passes over a row up to MaxAttempts.                 *)
(***************************************************************************)
MaxRows == 2
MaxCount == 3
MaxAttempts == 2

RowIds == 1..MaxRows

HtmlContents == {"null", "empty", "html", "throws", "rejected"}

Stores == [RowIds -> [html_content : HtmlContents, navNull : BOOLEAN]]

\* --limit and --batch-size of the command line; limit 0 is no limit
Limits == {0, 1, 2}
BatchSizes == {1, 2}

UpTo(n, bound) == IF n < bound THEN n + 1 ELSE bound

\* WHERE html_content IS NOT NULL AND nav_structure IS NULL
NeedsBackfill(rows) ==
  {id \in RowIds : rows[id].html_content # "null" /\ rows[id].navNull}

\* ORDER BY id LIMIT n
SelectPages(rows, n) ==
  LET pending == NeedsBackfill(rows)
      ordered == CHOOSE seq \in [1..Cardinality(pending) -> pending] :
                   \A i, j \in 1..Cardinality(pending) :
                     i < j => seq[i] < seq[j]
  IN  IF Len(ordered) <= n THEN ordered ELSE SubSeq(ordered, 1, n)

\* limitClause
LimitClause(b) ==
  IF b.limit > 0
    THEN IF b.batchSize <= b.limit - b.totalProcessed
           THEN b.batchSize ELSE b.limit - b.totalProcessed
    ELSE b.batchSize

InitBackfill ==
  \E rows \in Stores, limit \in Limits, batchSize \in BatchSizes :
    bf = [pc |-> "count", rows |-> rows, limit |-> limit,
          batchSize |-> batchSize, totalProcessed |-> 0, totalUpdated |-> 0,
          pages |-> <<>>, index |-> 1, attempts |-> [id \in RowIds |-> 0]]

\* the count of the pages needing backfill; none: the script returns
CountPending ==
  /\ bf.pc = "count"
  /\ bf' = [bf EXCEPT !.pc = IF NeedsBackfill(bf.rows) = {}
                               THEN "done" ELSE "select"]
  /\ UNCHANGED <<crawlerVars, call>>

\* the batch query; an empty batch ends the loop
SelectBatch ==
  /\ bf.pc = "select"
  /\ LET batch == SelectPages(bf.rows, LimitClause(bf))
     IN  bf' = [bf EXCEPT !.pages = batch, !.index = 1,
                          !.pc = IF batch = <<>> THEN "done" ELSE "page"]
  /\ UNCHANGED <<crawlerVars, call>>

\* a query of the script is rejected outside the try block of a page: the
\* script exits with code 1
QueryError ==
  /\ bf.pc \in {"count", "select"}
  /\ bf' = [bf EXCEPT !.pc = "failed"]
  /\ UNCHANGED <<crawlerVars, call>>

\* the end of a pass of the for loop: the next page of the batch or, after
\* the last page, the check of the limit and the next batch
NextPage(b) ==
  IF b.index < Len(b.pages)
    THEN [b EXCEPT !.index = @ + 1]
    ELSE [b EXCEPT !.pc = IF b.limit > 0 /\ b.totalProcessed >= b.limit
                            THEN "done" ELSE "select"]

\* the row the for loop is at, with the pass counted
Attempted(b) ==
  [b EXCEPT !.attempts[b.pages[b.index]] = UpTo(@, MaxAttempts)]

\* if (!page.html_content) continue: the empty string; totalProcessed is
\* not incremented
SkipPage ==
  /\ bf.pc = "page"
  /\ bf.rows[bf.pages[bf.index]].html_content = "empty"
  /\ bf' = NextPage(Attempted(bf))
  /\ UNCHANGED <<crawlerVars, call>>

\* the navigation is extracted and the UPDATE stores it
UpdatePage ==
  /\ bf.pc = "page"
  /\ bf.rows[bf.pages[bf.index]].html_content = "html"
  /\ bf' = NextPage([Attempted(bf) EXCEPT
                       !.rows[bf.pages[bf.index]].navNull = FALSE,
                       !.totalUpdated = UpTo(@, MaxCount),
                       !.totalProcessed = UpTo(@, MaxCount)])
  /\ UNCHANGED <<crawlerVars, call>>

\* extractNavStructure throws or the UPDATE is rejected: the catch block
\* logs the error and the row keeps its NULL
PageError ==
  /\ bf.pc = "page"
  /\ bf.rows[bf.pages[bf.index]].html_content \in {"throws", "rejected"}
  /\ bf' = NextPage([Attempted(bf) EXCEPT
                       !.totalProcessed = UpTo(@, MaxCount)])
  /\ UNCHANGED <<crawlerVars, call>>

BackfillInit == InitCrawler /\ call = NoCall /\ InitBackfill

BackfillNext ==
  \/ CountPending
  \/ SelectBatch
  \/ QueryError
  \/ SkipPage
  \/ UpdatePage
  \/ PageError

\* the script is one sequential function: its next step runs when the
\* query it awaits settles
BackfillSpec == BackfillInit /\ [][BackfillNext]_vars /\ WF_vars(BackfillNext)

(***************************************************************************)
(* Properties                                                              *)
(***************************************************************************)
\* a property of a record that is undefined, null or the empty string
Absent(x) == x = None \/ x = Some(<<>>)

\* the latest page upsert found a row with its final_url
OnConflict == hist.last.kind # "none" /\ IsSome(hist.last.pre)

\* C1: when upsertPage meets an existing row with the same final_url, the
\* stored html_content and clean_html stay as they are if the new record
\* has no content_hash or one equal to the stored content_hash; they are
\* replaced by the new record's values only when the new content_hash is
\* present and differs from the stored one.
C1_HashGatedContent ==
  OnConflict =>
    LET old == Val(hist.last.pre)
        new == hist.last.page
        post == hist.last.post
    IN  IF Absent(new.content_hash) \/ new.content_hash = old.content_hash
          THEN /\ post.html_content = old.html_content
               /\ post.clean_html = old.clean_html
          ELSE /\ post.html_content =
                    (IF Absent(new.html_content) THEN None ELSE new.html_content)
               /\ post.clean_html =
                    (IF Absent(new.clean_html) THEN None ELSE new.clean_html)

\* C1 witness: an upsert met a row holding content, brought the stored
\* content_hash with a different html_content, and the stored one was kept
C1_Witness ==
  /\ OnConflict
  /\ IsSome(Val(hist.last.pre).html_content)
  /\ hist.last.page.content_hash = Val(hist.last.pre).content_hash
  /\ hist.last.page.html_content # Val(hist.last.pre).html_content
  /\ hist.last.post.html_content = Val(hist.last.pre).html_content

\* the columns in which two rows differ
Changed(pre, post) == {c \in DOMAIN pre : pre[c] # post[c]}

\* the latest page upsert is a re-crawl of an unchanged page: the request
\* handler wrote the row, the write before it on the row was the request
\* handler's too, for the same sitemap entry, and both responses had the
\* same body
Recrawl ==
  /\ OnConflict
  /\ hist.last.write.kind = "request"
  /\ hist.last.before.kind = "request"
  /\ hist.last.before.body = hist.last.write.body
  /\ hist.last.before.req.userData = hist.last.write.req.userData

\* C2 (as stated): re-crawling a page whose response is byte-identical to
\* the one of its previous crawl leaves html_content and clean_html identical, and of all columns only
\* last_crawled_at, run_id and status_code may differ.
C2_OnlyRunColumnsChange ==
  Recrawl =>
    Changed(Val(hist.last.pre), hist.last.post)
      \subseteq {"last_crawled_at", "run_id", "status_code"}

\* C2 (amended): re-crawling a page, through the same sitemap entry, whose
\* response is byte-identical to the one of its previous crawl leaves
\* html_content and clean_html identical, and of all columns only
\* last_crawled_at, run_id, status_code and crawl_status (which follows the
\* status code) may differ.
C2_OnlyRunAndStatusColumnsChange ==
  Recrawl =>
    /\ hist.last.post.html_content = Val(hist.last.pre).html_content
    /\ hist.last.post.clean_html = Val(hist.last.pre).clean_html
    /\ Changed(Val(hist.last.pre), hist.last.post)
         \subseteq {"last_crawled_at", "run_id", "status_code", "crawl_status"}

\* C2 witness: a page with content was re-crawled in a later run, with the
\* same body and another status code
C2_Witness ==
  /\ Recrawl
  /\ IsSome(hist.last.post.html_content)
  /\ IsSome(hist.last.post.sitemap_type_hint)
  /\ hist.last.post.run_id # Val(hist.last.pre).run_id
  /\ hist.last.post.status_code # Val(hist.last.pre).status_code

\* a record that carries no content
NoContent(page) ==
  /\ Absent(page.html_content)
  /\ Absent(page.clean_html)
  /\ Absent(page.markdown)
  /\ Absent(page.content_hash)

\* C3: an upsert whose record carries no content (html_content, clean_html,
\* markdown and content_hash absent or empty, as in an ERROR record) leaves
\* the stored html_content, clean_html, markdown and content_hash as they
\* were.
C3_NoContentKeepsStored ==
  (OnConflict /\ NoContent(hist.last.page)) =>
    \A c \in {"html_content", "clean_html", "markdown", "content_hash"} :
      hist.last.post[c] = Val(hist.last.pre)[c]

\* C3 witness: the ERROR record of a failed fetch met a row holding content
\* and the content is still there
C3_Witness ==
  /\ OnConflict
  /\ hist.last.kind = "failed"
  /\ NoContent(hist.last.page)
  /\ IsSome(Val(hist.last.pre).html_content)
  /\ IsSome(Val(hist.last.pre).markdown)
  /\ IsSome(hist.last.post.content_hash)
  /\ hist.last.post.html_content = Val(hist.last.pre).html_content

\* a run is over
RunOver == runId >= 1 /\ phase = "idle"

\* nothing went wrong in the run: no fetch failed and no database call was
\* rejected
CleanRun == stats.errors = 0 /\ ~hist.rejected

\* the valid URLs listed in the sitemap of the run
ListedUrls ==
  {hist.sitemap.sites[i] : i \in
     {j \in 1..Len(hist.sitemap.sites) : isValidUrl(hist.sitemap.sites[j])}}

\* C4: when two seed URLs have the same canonical form, the crawl ends with
\* exactly one Page row for the page they name and with two Alias rows, one
\* per seed URL, both pointing at that row.
C4_OnePageTwoAliases ==
  (RunOver /\ CleanRun /\ stats.pagesSkipped = 0) =>
    \A s1 \in ListedUrls, s2 \in ListedUrls :
      (s1 # s2 /\ normalizeUrl(s1) = normalizeUrl(s2)) =>
        /\ s1 \in DOMAIN aliases
        /\ s2 \in DOMAIN aliases
        /\ aliases[s1].final_url = aliases[s2].final_url
        /\ aliases[s1].final_url \in DOMAIN pages

\* the records of the run that went to the row of finalUrl
AppliedTo(finalUrl) == {page \in hist.applied : page.final_url = finalUrl}

\* the rows the statements of the records can leave when they are executed
\* one after the other, in any order, on the row of the table
RECURSIVE SerialOutcomes(_, _)
SerialOutcomes(table, records) ==
  IF records = {} THEN {table}
  ELSE UNION {SerialOutcomes(upsertPage(table, page, CurrentTimestamp),
                             records \ {page}) : page \in records}

\* C5: when handlers finish URLs that resolve to the same final_url, also
\* concurrently, crawler_pages holds one row for that final_url and the row
\* is the one some serial order of their upserts produces.
C5_SerialOutcome ==
  \A finalUrl \in DOMAIN pages :
    \E table \in SerialOutcomes(hist.base, AppliedTo(finalUrl)) :
      /\ finalUrl \in DOMAIN table
      /\ pages[finalUrl] = table[finalUrl]

\* C5 witness: two handlers were in flight for the same final_url at the
\* same time, both have written, and their records differ
C5_Witness ==
  \E finalUrl \in hist.raced :
    /\ Cardinality(AppliedTo(finalUrl)) = 2
    /\ \A w \in Workers : wk[w].pc = "idle"
    /\ \E a \in AppliedTo(finalUrl), b \in AppliedTo(finalUrl) :
         a.html_content # b.html_content

\* C6: every row of crawler_pages has a final_url that normalizeUrl leaves
\* as it is, whichever handler wrote the row.
C6_FinalUrlNormalized ==
  \A finalUrl \in DOMAIN pages :
    pages[finalUrl].final_url = normalizeUrl(pages[finalUrl].final_url)

\* C7: an alias row is written for every requested URL, also when the page
\* is skipped because it is already stored or already in the queue.
C7_AliasForSkipped ==
  (RunOver /\ CleanRun /\ stats.pagesSkipped > 0
     /\ stats.pagesSkipped = Len(urls)) =>
    \A i \in 1..Len(urls) : urls[i].url \in DOMAIN aliases

\* the latest request handler that ran to its end saw a redirect
RedirectSeen == hist.done.kind = "request" /\ hist.done.redirect

CarriesNone(page, c) ==
  \/ c \notin DOMAIN page
  \/ page[c] = None
  \/ c \in {"title", "h1", "meta_description", "content_hash"}
       /\ page[c] = Some(<<>>)

\* C9: on a page upsert that meets an existing final_url, each of title,
\* h1, meta_description, word_count, extraction_method, junk_score,
\* content_hash, sitemap_type_hint, nav_structure and structural_stats
\* keeps its stored value when the new record carries none and takes the
\* new record's value otherwise.
C9_CoalescedColumns ==
  OnConflict =>
    \A c \in {"title", "h1", "meta_description", "word_count",
              "extraction_method", "junk_score", "content_hash",
              "sitemap_type_hint", "nav_structure", "structural_stats"} :
      hist.last.post[c] =
        (IF CarriesNone(hist.last.page, c)
           THEN Val(hist.last.pre)[c] ELSE hist.last.page[c])

\* C10: every row of crawler_pages with a content_hash has the MD5 of its
\* own clean_html, whitespace collapsed and trimmed, as content_hash.
C10_HashOfStoredCleanHtml ==
  \A finalUrl \in DOMAIN pages :
    IsSome(pages[finalUrl].content_hash) =>
      /\ IsSome(pages[finalUrl].clean_html)
      /\ pages[finalUrl].content_hash =
           Some(md5Hash(Trim(CollapseWhitespace(Val(pages[finalUrl].clean_html)))))

\* C11: a row of crawler_pages has a null content_hash if and only if no
\* content was extracted for the page, that is, its clean_html is absent or
\* empty.
C11_HashNullIffNoContent ==
  \A finalUrl \in DOMAIN pages :
    (pages[finalUrl].content_hash = None) <=> Absent(pages[finalUrl].clean_html)

\* the row of finalUrl is the ERROR page of a failure of the current run
ErrorRow(table, finalUrl) ==
  /\ finalUrl \in DOMAIN table
  /\ table[finalUrl].crawl_status = "ERROR"
  /\ IsSome(table[finalUrl].last_error)
  /\ table[finalUrl].run_id = Some(runId)

\* worker w ends its failed-request handler in this step
FailedHandlerEnds(w) == wk[w].pc = "failed" /\ wk'[w].pc # "failed"

ErrorPagesOfRun ==
  {finalUrl \in DOMAIN pages :
     /\ pages[finalUrl].crawl_status = "ERROR"
     /\ pages[finalUrl].run_id = Some(runId)}

PageWriteAccepted(w) ==
  /\ wk[w].pc = "page" /\ wk'[w].pc # "page"
  /\ stats'.pagesCrawled = stats.pagesCrawled + 1

\* worker w leaves the page try/catch in this step, the upsert rejected
PageWriteRejected(w) ==
  /\ wk[w].pc = "page" /\ wk'[w].pc # "page"
  /\ stats'.errors = stats.errors + 1

\* worker w leaves the alias try/catch in this step
AliasWriteEnds(w) == wk[w].pc = "alias" /\ wk'[w].pc # "alias"

\* the request of worker w was redirected
Redirected(w) ==
  RedirectChain(RequestedUrl(wk[w].req), normalizeUrl(wk[w].loadedUrl)) # <<>>

C15_AtMostMaxPagesFetched == stats.pagesCrawled <= maxPages

\* the process of a run has ended
ProcessEnded == runId >= 1 /\ phase = "idle"

\* C16: every run created at startup is closed at termination: for every
\* row written by createCrawlRun the totals are written and then finished_at
\* is set by the time the process ends.
C16_EveryRunClosed ==
  ProcessEnded => \A r \in DOMAIN runs : IsSome(runs[r].finished_at)

\* C17: the crawl applies no retry: each enqueued URL is fetched at most
\* once in a run, so that no request is back in the queue after a fetch of
\* it failed, and a failed fetch ends in an ERROR page after that one attempt.
C17_FetchedAtMostOnce == \A req \in queue : req.retryCount = 0

\* request req comes back to the queue in this step for a retry
Reclaimed(req) ==
  \E old \in queue \ queue' :
    /\ old.url = req.url
    /\ old.userData = req.userData
    /\ req.retryCount = old.retryCount + 1

\* C18: within one run no normalized URL is enqueued more than once: a
\* request is added only for a URL that is not in queuedUrls, which then
\* holds it until the run is over, so that the queue never holds two requests
\* for one URL, whatever the list of URLs repeats.
C18_NoUrlEnqueuedTwice ==
  [][runId' = runId =>
       /\ queuedUrls \subseteq queuedUrls'
       /\ \A a \in queue', b \in queue' : a.url = b.url => a = b
       /\ \A req \in queue' \ queue :
            \/ Reclaimed(req)
            \/ /\ phase = "enqueue"
               /\ req.url = normalizeUrl(urls[idx].normalizedUrl)
               /\ req.url \notin queuedUrls
               /\ req.url \in queuedUrls']_vars

\* C18 witness: the list held two URLs with one normalized form; the loop
\* is over and one request was added for them
C18_Witness ==
  /\ phase = "crawl"
  /\ Len(urls) = 2
  /\ urls[1].normalizedUrl # urls[2].normalizedUrl
  /\ ~NormalizeThrows(urls[1].normalizedUrl)
  /\ normalizeUrl(urls[1].normalizedUrl) = normalizeUrl(urls[2].normalizedUrl)
  /\ queuedUrls = {normalizeUrl(urls[1].normalizedUrl)}
  /\ Cardinality({req \in queue : req.url \in queuedUrls}) = 1
  /\ stats.pagesSkipped = 0

\* the URL of the i-th element main hands to runCrawl
ListedNormalizedUrl(i) ==
  parseMultipleSitemaps(hist.sitemap.sites, hist.sitemap.typeHint)[i].normalizedUrl

\* C19: when recrawl is off and a page exists for the normalized form of a
\* URL, the iteration of the URL adds no request and increments pagesSkipped
\* by one; when recrawl is on, no iteration counts a skip.
C19_ExistingPageSkipped ==
  [][(phase = "enqueue" /\ idx' = idx + 1) =>
       /\ (~recrawl /\ pageExists(pages, normalizeUrl(ListedNormalizedUrl(idx)))) =>
            /\ queue' = queue
            /\ stats'.pagesSkipped = stats.pagesSkipped + 1
       /\ recrawl => stats'.pagesSkipped = stats.pagesSkipped]_vars

\* C20: a URL the normalizer rejects in the enqueue loop is dropped and is
\* not counted as a crawl error: its iteration adds no request, leaves the
\* counters and the tables as they are, and the loop goes on to the next URL.
C20_InvalidUrlDropped ==
  [][(/\ phase = "enqueue" /\ idx <= Len(urls)
      /\ NormalizeThrows(urls[idx].normalizedUrl)
      /\ phase' = "enqueue") =>
       /\ idx' = idx + 1
       /\ queue' = queue
       /\ queuedUrls' = queuedUrls
       /\ stats' = stats
       /\ pages' = pages /\ aliases' = aliases
       /\ hist'.rejected = hist.rejected]_vars

\* C20 witness: the first of two URLs was rejected by the normalizer, the
\* loop went on to the second and is over, and no error is counted
C20_Witness ==
  /\ phase = "crawl"
  /\ Len(urls) = 2 /\ idx = 3
  /\ NormalizeThrows(urls[1].normalizedUrl)
  /\ queue = {} /\ queuedUrls = {}
  /\ stats.errors = 0 /\ stats.urlsDiscovered = 2
  /\ ~hist.rejected

\* C21: the counters of a run lose no increment under the concurrent
\* handlers: pagesCrawled is the number of page upserts that resolved in
\* request handlers, redirects the number of alias upserts that resolved, and
\* errors the number of rejected page saves plus the failed requests.
C21_CountersMatchEvents ==
  /\ stats.pagesCrawled = hist.events.pageSaved
  /\ stats.redirects = hist.events.aliasSaved
  /\ stats.errors = hist.events.pageSaveFailed + hist.events.requestFailed

\* C21 witness: a run is over in which two handlers wrote the same row while
\* both were in flight; both page saves resolved, an alias was saved, and the
\* counters hold both pages
C21_Witness ==
  /\ phase = "idle" /\ runId >= 1
  /\ hist.raced # {}
  /\ hist.events.pageSaved = 2
  /\ stats.pagesCrawled = 2
  /\ stats.redirects >= 1

\* the site answered alike for every fetch of the run that ended at the same
\* final URL
SameResponses ==
  \A a \in hist.applied, b \in hist.applied :
    a.final_url = b.final_url =>
      /\ a.status_code = b.status_code
      /\ a.html_content = b.html_content

\* C22: crawls are deterministic: for the same seed URLs, the same responses
\* and the same initial store, the rows at the end of the run are the same
\* for every scheduling of the handlers, that is for every order in which the
\* upserts of the run can reach a row.
C22_SameRowsForEverySchedule ==
  (RunOver /\ CleanRun /\ SameResponses) =>
    \A finalUrl \in DOMAIN pages :
      \A table \in SerialOutcomes(hist.base, AppliedTo(finalUrl)) :
        table[finalUrl] = pages[finalUrl]

\* C23: a response classified OK whose title matches a known 404 phrase and
\* whose word count is below 150 is stored with crawl_status SOFT_404 (status
\* 200, title 'Page Not Found' and 40 words give SOFT_404 with word_count 40).
C23_Soft404Stored ==
  (/\ hist.last.kind = "request"
   /\ CrawlStatus(Val(hist.last.page.status_code)) = "OK"
   /\ extractMetadata(hist.last.write.body).title \in SOFT_404_TITLE_PATTERNS
   /\ extractContent(hist.last.write.body).wordCount < 150) =>
     hist.last.post.crawl_status = "SOFT_404"

\* C24: crawl_status follows from the HTTP status of the response: 404 and
\* 410 give NOT_FOUND, every other status of 400 or more gives ERROR, and OK
\* is given only to a status of 200 or more that is below 400.
C24_StatusClasses ==
  (call.fn = "CrawlStatus" /\ IsSome(call.result)) =>
    /\ call.statusCode \in {404, 410} => Val(call.result) = "NOT_FOUND"
    /\ (call.statusCode >= 400 /\ call.statusCode \notin {404, 410}) =>
         Val(call.result) = "ERROR"
    /\ Val(call.result) = "OK" =>
         (call.statusCode >= 200 /\ call.statusCode < 400)

\* C25: URL normalization is idempotent: for every URL u that normalizeUrl
\* accepts, normalizeUrl(normalizeUrl(u)) = normalizeUrl(u).
C25_NormalizeIdempotent ==
  (call.fn = "normalizeUrl" /\ IsSome(call.result)) =>
    /\ ~NormalizeThrows(Val(call.result))
    /\ normalizeUrl(Val(call.result)) = Val(call.result)

\* the tracking parameters as the specification names them: the parameters of
\* the list and the rest of the utm_* family
IsTrackingParam(k) == k \in TRACKING_PARAMS \cup {"utm_name"}

\* the query pairs of q that are not tracking parameters
RECURSIVE Untracked(_)
Untracked(q) ==
  IF q = <<>> THEN <<>>
  ELSE IF IsTrackingParam(Head(q)) THEN Untracked(Tail(q))
       ELSE <<Head(q)>> \o Untracked(Tail(q))

\* p and q hold the same pairs, each as many times, in any order
SamePairs(p, q) ==
  /\ Len(p) = Len(q)
  /\ \A k \in QueryKeys :
       Cardinality({i \in 1..Len(p) : p[i] = k}) =
         Cardinality({i \in 1..Len(q) : q[i] = k})

\* a and b differ at most in fragment, tracking parameters, host case, order
\* of the query pairs, and one trailing slash on a path that is not the root
DifferOnlyInNormalizedParts(a, b) ==
  /\ a.scheme = b.scheme /\ a.base = b.base
  /\ ToLowerCase(a.host) = ToLowerCase(b.host)
  /\ SamePairs(Untracked(a.query), Untracked(b.query))
  /\ IF a.base = "" THEN ParsedTrail(a) = ParsedTrail(b)
     ELSE a.trail - b.trail \in {-1, 0, 1}

\* C26: two URLs that differ only in fragment, tracking parameters (the
\* utm_* family and the others of the list), host case, order of the query
\* pairs, or a trailing slash on a non-root path have the same normalized
\* form.
C26_EquivalentUrlsNormalizeEqual ==
  (/\ call.fn = "normalizeUrlPair" /\ IsSome(call.results)
   /\ DifferOnlyInNormalizedParts(call.a, call.b)) =>
     Val(call.results)[1] = Val(call.results)[2]

\* the elements of the list whose range holds the position
Containing(position, elements) ==
  {elements[i] : i \in {j \in 1..Len(elements) :
                          /\ position >= elements[j].startIndex
                          /\ position <= elements[j].endIndex}}

\* C27: getStructuralTypeAtPosition returns the innermost element that
\* contains the position: of the elements that contain it, one that holds
\* no smaller one of them, whatever the order of the list; and it returns
\* null when no element contains the position.
C27_InnermostElement ==
  (call.fn = "getStructuralTypeAtPosition" /\ call.returned) =>
    LET holding == Containing(call.position, call.elements)
    IN  IF holding = {} THEN call.result = None
        ELSE /\ IsSome(call.result)
             /\ Val(call.result) \in holding
             /\ \A e \in holding :
                  (e.endIndex - e.startIndex) >=
                    (Val(call.result).endIndex - Val(call.result).startIndex)

\* the items of a cluster that are siblings: same depth, same parents
Siblings(items, depth, parentLabels) ==
  {j \in 1..Len(items) :
     items[j].depth = depth /\ items[j].parent_labels = parentLabels}

\* C28: in every extracted navigation cluster the order values of the items
\* at a depth are dense and zero-based among siblings (0, 1, 2, ... without
\* gaps), also when entries of the menu are skipped for lacking a usable link
\* or label or are filtered out as utility links.
C28_OrderDenseZeroBased ==
  (call.fn = "extractPrimaryNav" /\ call.returned) =>
    \A depth \in {0, 1} :
      \A parentLabels \in {<<>>} \cup {<<i>> : i \in 1..MaxMenuItems} :
        {call.items[j].order : j \in Siblings(call.items, depth, parentLabels)}
          = 0..(Cardinality(Siblings(call.items, depth, parentLabels)) - 1)

\* the latest request handler that ran to its end handled a fetch without
\* an HTTP redirect: the loaded URL is the URL of the request
NoHttpRedirect ==
  hist.done.kind = "request" /\ hist.done.loadedUrl = hist.done.req.url

\* C29: a URL fetched without an HTTP redirect gets an empty redirect chain
\* and no alias row (so no increment of the redirects counter), whatever the
\* form of the raw URL string of the sitemap: also one that differs from its
\* normalized form by a trailing slash, host case or tracking parameter.
C29_NoRedirectNoAlias ==
  NoHttpRedirect => ~hist.done.redirect /\ ~hist.done.aliasOk

\* the backfill script has ended: it returned or it exited on a rejected
\* query
BackfillEnded == bf.pc \in {"done", "failed"}

\* C30: run without a limit, the nav-structure backfill terminates for every
\* content of the store, and each page that needs backfill is selected and
\* processed at most once, also when the extraction or the UPDATE of the
\* row fails.
C30_BackfillTerminates ==
  (bf.limit = 0) =>
    /\ <>BackfillEnded
    /\ [](\A id \in RowIds : bf.attempts[id] <= 1)

====
